---- MODULE Spec2Model ----
(***************************************************************************)
(* Guardrail policy checker and student-support handlers of the           *)
(* career-coach services:                                                  *)
(*   src/guardrails/app/policy.py  (policy_check and its pattern tables)   *)
(*   src/guardrails/app/app.py     (validate_text, validate_text_strict)   *)
(*   src/student_support/app.py    (get_student_support, analyze)          *)
(* Texts are TLA+ strings; a character is a string of length one.          *)
(***************************************************************************)
EXTENDS Integers, Sequences, FiniteSets, TLC

(***************************************************************************)
(* Bounds of the model.                                                    *)
(***************************************************************************)
MaxFrags == 2
NumCallers == 2

(***************************************************************************)
(* Characters and character classes: the ASCII part of Python's str        *)
(* classes and one letter outside ASCII.                                   *)
(***************************************************************************)
\* U+212A KELVIN SIGN: a letter (so \w matches it) in none of the ASCII
\* classes, whose lower() is "k".  It is written as a number sign in the
\* texts of the model, which hold no number sign of their own.
KelvinSign == "#"

Digit == {"0", "1", "2", "3", "4", "5", "6", "7", "8", "9"}

Upper == {"A", "B", "C", "D", "E", "F", "G", "H", "I", "J", "K", "L", "M",
          "N", "O", "P", "Q", "R", "S", "T", "U", "V", "W", "X", "Y", "Z"}

LowerCase == {"a", "b", "c", "d", "e", "f", "g", "h", "i", "j", "k", "l", "m",
              "n", "o", "p", "q", "r", "s", "t", "u", "v", "w", "x", "y", "z"}

\* \w of the re module
WordChar == Digit \cup Upper \cup LowerCase \cup {"_", KelvinSign}

\* \s of the re module
Space == {" ", "\t", "\n", "\r", "\f"}

\* [-.\s]
Separator == {"-", "."} \cup Space

\* [A-Za-z0-9._%+-]
EmailLocalChar == Upper \cup LowerCase \cup Digit \cup {".", "_", "%", "+", "-"}

\* [A-Za-z0-9.-]
EmailDomainChar == Upper \cup LowerCase \cup Digit \cup {".", "-"}

\* [A-Z|a-z]  (the bar is a member of the class)
EmailTldChar == Upper \cup LowerCase \cup {"|"}

Char(s, i) == SubSeq(s, i, i)

\* str.lower() on one character
CharLower(ch) ==
    CASE ch = "A" -> "a" [] ch = "B" -> "b" [] ch = "C" -> "c" [] ch = "D" -> "d"
      [] ch = "E" -> "e" [] ch = "F" -> "f" [] ch = "G" -> "g" [] ch = "H" -> "h"
      [] ch = "I" -> "i" [] ch = "J" -> "j" [] ch = "K" -> "k" [] ch = "L" -> "l"
      [] ch = "M" -> "m" [] ch = "N" -> "n" [] ch = "O" -> "o" [] ch = "P" -> "p"
      [] ch = "Q" -> "q" [] ch = "R" -> "r" [] ch = "S" -> "s" [] ch = "T" -> "t"
      [] ch = "U" -> "u" [] ch = "V" -> "v" [] ch = "W" -> "w" [] ch = "X" -> "x"
      [] ch = "Y" -> "y" [] ch = "Z" -> "z" [] ch = KelvinSign -> "k"
      [] OTHER -> ch

RECURSIVE StrLower(_)
\* text.lower(): every character lower-cased, halves first to keep the
\* evaluation shallow
StrLower(s) ==
    IF Len(s) = 0 THEN ""
    ELSE IF Len(s) = 1 THEN CharLower(s)
    ELSE StrLower(SubSeq(s, 1, Len(s) \div 2))
         \o StrLower(SubSeq(s, Len(s) \div 2 + 1, Len(s)))

\* variant: needle counts only as a whole word (\bneedle\b)
ContainsWord(hay, needle) ==
    \E i \in 1..(Len(hay) + 1) :
        /\ i + Len(needle) - 1 <= Len(hay)
        /\ SubSeq(hay, i, i + Len(needle) - 1) = needle
        /\ ~(i > 1 /\ SubSeq(hay, i - 1, i - 1) \in WordChar)
        /\ ~(i + Len(needle) <= Len(hay)
               /\ SubSeq(hay, i + Len(needle), i + Len(needle)) \in WordChar)

\* needle in hay  (Python substring containment)
Contains(hay, needle) ==
    \E i \in 1..(Len(hay) + 1) :
        /\ i + Len(needle) - 1 <= Len(hay)
        /\ SubSeq(hay, i, i + Len(needle) - 1) = needle

RECURSIVE Join(_, _)
\* sep.join(words)
Join(words, sep) ==
    IF words = <<>> THEN ""
    ELSE IF Len(words) = 1 THEN words[1]
    ELSE words[1] \o sep \o Join(Tail(words), sep)

(***************************************************************************)
(* A small backtracking matcher for the regular expressions of             *)
(* PII_PATTERNS.  A pattern is a set of alternatives, each a sequence of   *)
(* repeated character classes, anchored by \b at both ends.                *)
(***************************************************************************)
Rep(cls, lo, hi) == [cls |-> cls, lo |-> lo, hi |-> hi, open |-> FALSE]
AtLeast(cls, lo) == [cls |-> cls, lo |-> lo, hi |-> lo, open |-> TRUE]
One(cls) == Rep(cls, 1, 1)
Opt(cls) == Rep(cls, 0, 1)

IsWordAt(s, i) == i >= 1 /\ i <= Len(s) /\ Char(s, i) \in WordChar

\* \b at the position just before the character of index i
WordBoundary(s, i) == IsWordAt(s, i - 1) # IsWordAt(s, i)

RECURSIVE MatchEnds(_, _, _, _)
\* the positions at which elems[k..] can stop when started at index i
MatchEnds(s, i, elems, k) ==
    IF k > Len(elems) THEN {i}
    ELSE LET e == elems[k]
             cap == IF e.open THEN Len(s) - i + 1
                    ELSE IF e.hi < Len(s) - i + 1 THEN e.hi ELSE Len(s) - i + 1
             counts == {n \in e.lo..cap :
                           \A m \in 0..(n - 1) : Char(s, i + m) \in e.cls}
         IN  UNION {MatchEnds(s, i + n, elems, k + 1) : n \in counts}

\* the start positions of the matches of \b(alt1|alt2|...)\b in s
MatchStarts(s, alts) ==
    {i \in 1..(Len(s) + 1) :
        /\ WordBoundary(s, i)
        /\ \E elems \in alts :
              \E j \in MatchEnds(s, i, elems, 1) : WordBoundary(s, j)}

\* re.search(regex, text) is not None
Search(s, alts) == MatchStarts(s, alts) # {}

\* r'\b[A-Za-z0-9._%+-]+@[A-Za-z0-9.-]+\.[A-Z|a-z]{2,}\b'
EmailRegex ==
    { << AtLeast(EmailLocalChar, 1), One({"@"}), AtLeast(EmailDomainChar, 1),
         One({"."}), AtLeast(EmailTldChar, 2) >> }

PhoneBody ==
    << Opt({"("}), Rep(Digit, 3, 3), Opt({")"}), Opt(Separator),
       Rep(Digit, 3, 3), Opt(Separator), Rep(Digit, 4, 4) >>

PhoneCountryCode == << Opt({"+"}), Rep(Digit, 1, 3), Opt(Separator) >>

\* r'\b(?:\+?\d{1,3}[-.\s]?)?\(?\d{3}\)?[-.\s]?\d{3}[-.\s]?\d{4}\b'
PhoneRegex == { PhoneBody, PhoneCountryCode \o PhoneBody }

\* r'\b\d{3}-\d{2}-\d{4}\b'
SsnRegex ==
    { << Rep(Digit, 3, 3), One({"-"}), Rep(Digit, 2, 2), One({"-"}),
         Rep(Digit, 4, 4) >> }

\* PII_PATTERNS[pii_type]
PiiRegex(pii_type) ==
    CASE pii_type = "email" -> EmailRegex
      [] pii_type = "phone" -> PhoneRegex
      [] pii_type = "ssn" -> SsnRegex

(***************************************************************************)
(* The tables of policy.py.                                                *)
(***************************************************************************)
BANNED_PATTERNS ==
    << "because you are a woman",
       "because you are a man",
       "because you are muslim",
       "because you are christian",
       "because of your ethnicity",
       "because of your race",
       "because of your gender",
       "because of your age",
       "because of your disability",
       "due to your religion" >>

\* the keys of PII_PATTERNS in insertion (= iteration) order
PII_PATTERNS == << "email", "phone", "ssn" >>

unprofessional_words == << "stupid", "dumb", "idiot", "useless" >>

DiscriminatoryMessage(pattern) ==
    "Discriminatory reasoning detected: '" \o pattern \o "'"

PiiMessage(pii_type) == "PII detected: " \o pii_type

UnprofessionalMessage(found) == "Unprofessional language: " \o Join(found, ", ")

RECURSIVE DiscriminatoryPassFirstOnly(_, _)
\* variant: the loop breaks at the first banned phrase found
DiscriminatoryPassFirstOnly(lower, table) ==
    IF table = <<>> THEN <<>>
    ELSE IF Contains(lower, Head(table))
         THEN << DiscriminatoryMessage(Head(table)) >>
         ELSE DiscriminatoryPassFirstOnly(lower, Tail(table))

RECURSIVE DiscriminatoryPassPerOccurrence(_, _)
\* variant: one message for each occurrence of a banned phrase
DiscriminatoryPassPerOccurrence(lower, table) ==
    IF table = <<>> THEN <<>>
    ELSE LET n == Cardinality({i \in 1..Len(lower) :
                     /\ i + Len(Head(table)) - 1 <= Len(lower)
                     /\ SubSeq(lower, i, i + Len(Head(table)) - 1) = Head(table)})
         IN  [j \in 1..n |-> DiscriminatoryMessage(Head(table))]
             \o DiscriminatoryPassPerOccurrence(lower, Tail(table))

RECURSIVE DiscriminatoryPass(_, _)
\* for pattern in BANNED_PATTERNS: if pattern in lower: violations.append(...)
DiscriminatoryPass(lower, table) ==
    IF table = <<>> THEN <<>>
    ELSE (IF Contains(lower, Head(table))
          THEN << DiscriminatoryMessage(Head(table)) >> ELSE <<>>)
         \o DiscriminatoryPass(lower, Tail(table))

RECURSIVE PiiPassReversed(_, _)
\* variant: the detectors are visited in the reverse of the table order
PiiPassReversed(text, table) ==
    IF table = <<>> THEN <<>>
    ELSE (IF Search(text, PiiRegex(table[Len(table)]))
          THEN << PiiMessage(table[Len(table)]) >> ELSE <<>>)
         \o PiiPassReversed(text, SubSeq(table, 1, Len(table) - 1))

RECURSIVE PiiPassPerMatch(_, _)
\* variant: one message for every match (re.finditer) instead of one per kind
PiiPassPerMatch(text, table) ==
    IF table = <<>> THEN <<>>
    ELSE [n \in 1..Cardinality(MatchStarts(text, PiiRegex(Head(table))))
             |-> PiiMessage(Head(table))]
         \o PiiPassPerMatch(text, Tail(table))

RECURSIVE PiiPass(_, _)
\* for pii_type, regex in PII_PATTERNS.items(): if re.search(regex, text): ...
PiiPass(text, table) ==
    IF table = <<>> THEN <<>>
    ELSE (IF Search(text, PiiRegex(Head(table)))
          THEN << PiiMessage(Head(table)) >> ELSE <<>>)
         \o PiiPass(text, Tail(table))

RECURSIVE FoundInRange(_, _, _, _)
\* the table words that start at the positions a..b of lower, by position
FoundInRange(lower, words, a, b) ==
    IF a > b THEN <<>>
    ELSE IF a = b
    THEN LET here == {k \in 1..Len(words) :
                         /\ a + Len(words[k]) - 1 <= Len(lower)
                         /\ SubSeq(lower, a, a + Len(words[k]) - 1) = words[k]}
         IN  IF here = {} THEN <<>> ELSE << words[CHOOSE k \in here : TRUE] >>
    ELSE FoundInRange(lower, words, a, (a + b) \div 2)
         \o FoundInRange(lower, words, (a + b) \div 2 + 1, b)

\* variant: the words are collected while scanning the text, so they come
\* in text order and once per occurrence
FoundUnprofessionalTextOrder(lower, words) ==
    FoundInRange(lower, words, 1, Len(lower))

RECURSIVE FoundUnprofessional(_, _)
\* [word for word in unprofessional_words if word in lower]
FoundUnprofessional(lower, words) ==
    IF words = <<>> THEN <<>>
    ELSE (IF Contains(lower, Head(words)) THEN << Head(words) >> ELSE <<>>)
         \o FoundUnprofessional(lower, Tail(words))

\* variant: the message is appended even when no word was found
UnprofessionalPassAlways(lower, words) ==
    << UnprofessionalMessage(FoundUnprofessional(lower, words)) >>

\* if found_unprofessional: violations.append(...)
UnprofessionalPass(lower, words) ==
    LET found_unprofessional == FoundUnprofessional(lower, words)
    IN  IF found_unprofessional # <<>>
        THEN << UnprofessionalMessage(found_unprofessional) >> ELSE <<>>

(***************************************************************************)
(* Python values that cross the HTTP boundary.                             *)
(***************************************************************************)
PyNone == [t |-> "NoneType"]
PyStr(s) == [t |-> "str", v |-> s]
PyInt(n) == [t |-> "int", v |-> n]
PyList(l) == [t |-> "list", v |-> l]
PyDict(d) == [t |-> "dict", v |-> d]

\* variant: payload.get(key, "")
DictGetDefaultEmpty(payload, key) ==
    IF key \in DOMAIN payload THEN payload[key] ELSE PyStr("")

\* payload.get(key)
DictGet(payload, key) ==
    IF key \in DOMAIN payload THEN payload[key] ELSE PyNone

\* isinstance(value, str)
IsStr(value) == value.t = "str"

\* raise HTTPException(status_code=..., detail=...)
HTTPException(status_code, detail) ==
    [kind |-> "HTTPException", status_code |-> status_code, detail |-> detail]

\* ValidationResponse(status=..., is_valid=..., validated_text=..., violations=...)
ValidationResponse(status, is_valid, validated_text, violations) ==
    [kind |-> "ValidationResponse", status |-> status, is_valid |-> is_valid,
     validated_text |-> validated_text, violations |-> violations]

\* a plain returned value
Returned(value) == [kind |-> "return", value |-> value]

NoResponse == [kind |-> "none"]

(***************************************************************************)
(* Inputs.                                                                 *)
(***************************************************************************)
Callers == 1..NumCallers

Fragments ==
    { "because you are a woman",
      " because of your age",
      "Because You Are A Man",
      "ager DUMBbell",
      " 555-123-4567 or dumb@b.co ",
      "SSN 123-45-6789",
      "stupid and dumb",
      "Good luck",
      "\ta@b.co" \o KelvinSign }

RECURSIVE TextsOf(_)
\* the concatenations of at most n fragments
TextsOf(n) ==
    IF n = 0 THEN {""}
    ELSE LET shorter == TextsOf(n - 1)
         IN  shorter \cup {t \o f : t \in shorter, f \in Fragments}

Texts == TextsOf(MaxFrags)

\* payloads of /validate_text_strict whose 'text' is missing or not a string
IllTypedPayloads ==
    { <<>>, [text |-> PyInt(42)], [text |-> PyNone], [other |-> PyStr("DUMB")],
      [text |-> PyList(<< "stupid" >>)] }

StrictPayloads(texts) == {[text |-> PyStr(t)] : t \in texts} \cup IllTypedPayloads

(***************************************************************************)
(* State.                                                                  *)
(***************************************************************************)
VARIABLES
    banned_patterns,   \* module global BANNED_PATTERNS
    pii_patterns,      \* module global PII_PATTERNS (keys in iteration order)
    pc,                \* per caller: where its request stands
    endpoint,          \* per caller: the operation it invoked
    payload,           \* per caller: the request payload
    text,              \* per caller: local 'text'
    lower,             \* per caller: local 'lower' of policy_check
    violations,        \* per caller: local 'violations'
    invoked,           \* per caller: policy_check was entered for this request
    response,          \* per caller: outcome of its last request
    memo,              \* history: one list policy_check returned, with its text
    support_pc,        \* /support: where the request stands
    request,           \* /support: the JSON body (None when there is none)
    key,               \* /support: query parameter 'key'
    prompt,            \* /support: query parameter 'prompt'
    user_prompt,       \* /support: local 'user_prompt'
    support_response,  \* /support: outcome of the request
    crew_log,          \* history: the prompts run_student_support_crew was run with
    analyze_pc,        \* /analyze: where the request stands
    analyze_request,   \* /analyze: the AnalyzeRequest
    jobs,              \* /analyze: local 'jobs'
    skills,            \* /analyze: local 'skills'
    ethics_guidelines, \* /analyze: local 'ethics_guidelines'
    jobs_results,      \* /analyze: local 'jobs_results'
    skills_results,    \* /analyze: local 'skills_results'
    ethics_results,    \* /analyze: local 'ethics_results'
    analyze_response,  \* /analyze: outcome of the request
    haystack_log       \* history: the searches sent to the retrieval service

tables == << banned_patterns, pii_patterns >>
locals == << text, lower, violations, invoked >>
guardrails == << banned_patterns, pii_patterns, pc, endpoint, payload, text, lower,
                 violations, invoked, response, memo >>
support == << support_pc, request, key, prompt, user_prompt, support_response >>
analysis == << analyze_pc, analyze_request, jobs, skills, ethics_guidelines,
               jobs_results, skills_results, ethics_results, analyze_response,
               haystack_log >>
student == << support, analysis, crew_log >>
vars == << guardrails, student >>

NoMemo == [set |-> FALSE, text |-> "", result |-> <<>>]

Init ==
    /\ banned_patterns = BANNED_PATTERNS
    /\ pii_patterns = PII_PATTERNS
    /\ pc = [c \in Callers |-> "idle"]
    /\ endpoint = [c \in Callers |-> "none"]
    /\ payload = [c \in Callers |-> <<>>]
    /\ text = [c \in Callers |-> ""]
    /\ lower = [c \in Callers |-> ""]
    /\ violations = [c \in Callers |-> <<>>]
    /\ invoked = [c \in Callers |-> FALSE]
    /\ response = [c \in Callers |-> NoResponse]
    /\ memo = NoMemo
    /\ support_pc = "idle"
    /\ request = PyNone
    /\ key = PyNone
    /\ prompt = PyNone
    /\ user_prompt = PyNone
    /\ support_response = NoResponse
    /\ crew_log = <<>>
    /\ analyze_pc = "idle"
    /\ analyze_request = PyNone
    /\ jobs = <<>>
    /\ skills = <<>>
    /\ ethics_guidelines = <<>>
    /\ jobs_results = PyNone
    /\ skills_results = PyNone
    /\ ethics_results = PyNone
    /\ analyze_response = NoResponse
    /\ haystack_log = <<>>

\* a request of caller c starts in a fresh frame: payload and text are
\* bound, policy_check is not entered yet
Begin(c, ep, p, t, next) ==
    /\ pc[c] = "idle"
    /\ endpoint' = [endpoint EXCEPT ![c] = ep]
    /\ payload' = [payload EXCEPT ![c] = p]
    /\ text' = [text EXCEPT ![c] = t]
    /\ lower' = [lower EXCEPT ![c] = ""]
    /\ violations' = [violations EXCEPT ![c] = <<>>]
    /\ invoked' = [invoked EXCEPT ![c] = FALSE]
    /\ pc' = [pc EXCEPT ![c] = next]

(***************************************************************************)
(* policy_check(text), one step per pass.                                  *)
(***************************************************************************)
\* a direct call policy_check(t)
PolicyCheckCall(c, t) ==
    /\ Begin(c, "policy_check", [text |-> PyStr(t)], t, "enter")
    /\ response' = [response EXCEPT ![c] = NoResponse]
    /\ UNCHANGED << student, tables, memo >>

\* variant: the accumulator is a list that outlives the call (a module-level
\* list or a mutable default argument): it still holds what an earlier
\* invocation handed out and is not emptied at entry
PolicyEnterKeepsList(c) ==
    /\ pc[c] = "enter"
    /\ lower' = [lower EXCEPT ![c] = StrLower(text[c])]
    /\ violations' = [violations EXCEPT ![c] = memo.result]
    /\ invoked' = [invoked EXCEPT ![c] = TRUE]
    /\ pc' = [pc EXCEPT ![c] = "pass1"]
    /\ UNCHANGED << student, tables, endpoint, payload, text, response, memo >>

\* lower = text.lower(); violations = []
PolicyEnter(c) ==
    /\ pc[c] = "enter"
    /\ lower' = [lower EXCEPT ![c] = StrLower(text[c])]
    /\ violations' = [violations EXCEPT ![c] = <<>>]
    /\ invoked' = [invoked EXCEPT ![c] = TRUE]
    /\ pc' = [pc EXCEPT ![c] = "pass1"]
    /\ UNCHANGED << student, tables, endpoint, payload, text, response, memo >>

\* variant: the accumulator is one list shared by the invocations in flight
CheckDiscriminatoryShared(c) ==
    /\ pc[c] = "pass1"
    /\ violations' = [d \in Callers |->
           IF d = c \/ pc[d] \in {"pass1", "pass2", "pass3"}
           THEN violations[d] \o DiscriminatoryPass(lower[c], banned_patterns)
           ELSE violations[d]]
    /\ pc' = [pc EXCEPT ![c] = "pass2"]
    /\ UNCHANGED << student, tables, endpoint, payload, text, lower, invoked, response, memo >>

\* 1. Check discriminatory patterns
CheckDiscriminatory(c) ==
    /\ pc[c] = "pass1"
    /\ violations' = [violations EXCEPT
           ![c] = @ \o DiscriminatoryPass(lower[c], banned_patterns)]
    /\ pc' = [pc EXCEPT ![c] = "pass2"]
    /\ UNCHANGED << student, tables, endpoint, payload, text, lower, invoked, response, memo >>

\* variant: the detectors are run on the lower-cased text
CheckPiiLowered(c) ==
    /\ pc[c] = "pass2"
    /\ violations' = [violations EXCEPT
           ![c] = @ \o PiiPass(lower[c], pii_patterns)]
    /\ pc' = [pc EXCEPT ![c] = "pass3"]
    /\ UNCHANGED << student, tables, endpoint, payload, text, lower, invoked, response, memo >>

\* variant: a detector that matched is taken out of the table
CheckPiiConsuming(c) ==
    /\ pc[c] = "pass2"
    /\ violations' = [violations EXCEPT
           ![c] = @ \o PiiPass(text[c], pii_patterns)]
    /\ pii_patterns' = SelectSeq(pii_patterns,
           LAMBDA k : ~Search(text[c], PiiRegex(k)))
    /\ pc' = [pc EXCEPT ![c] = "pass3"]
    /\ UNCHANGED << student, banned_patterns, endpoint, payload, text, lower, invoked,
                    response, memo >>

\* 2. Check for PII
CheckPii(c) ==
    /\ pc[c] = "pass2"
    /\ violations' = [violations EXCEPT
           ![c] = @ \o PiiPass(text[c], pii_patterns)]
    /\ pc' = [pc EXCEPT ![c] = "pass3"]
    /\ UNCHANGED << student, tables, endpoint, payload, text, lower, invoked, response, memo >>

\* variant: the third pass is skipped when an earlier pass found something
CheckUnprofessionalElse(c) ==
    /\ pc[c] = "pass3"
    /\ violations' = [violations EXCEPT
           ![c] = IF @ = <<>>
                  THEN UnprofessionalPass(lower[c], unprofessional_words)
                  ELSE @]
    /\ pc' = [pc EXCEPT ![c] = "ret"]
    /\ UNCHANGED << student, tables, endpoint, payload, text, lower, invoked, response, memo >>

\* variant: the first matched word is read without testing that there is
\* one, so a text with no word of the table ends the call in an error
CheckUnprofessionalUnguarded(c) ==
    /\ pc[c] = "pass3"
    /\ IF FoundUnprofessional(lower[c], unprofessional_words) = <<>>
       THEN /\ pc' = [pc EXCEPT ![c] = "idle"]
            /\ response' = [response EXCEPT
                   ![c] = HTTPException(500, PyStr("Internal Server Error"))]
            /\ UNCHANGED violations
       ELSE /\ violations' = [violations EXCEPT
                   ![c] = @ \o UnprofessionalPass(lower[c], unprofessional_words)]
            /\ pc' = [pc EXCEPT ![c] = "ret"]
            /\ UNCHANGED response
    /\ UNCHANGED << student, tables, endpoint, payload, text, lower, invoked, memo >>

\* 3. Check for unprofessional language; return violations
CheckUnprofessional(c) ==
    /\ pc[c] = "pass3"
    /\ violations' = [violations EXCEPT
           ![c] = @ \o UnprofessionalPass(lower[c], unprofessional_words)]
    /\ pc' = [pc EXCEPT ![c] = "ret"]
    /\ UNCHANGED << student, tables, endpoint, payload, text, lower, invoked, response, memo >>

\* the direct caller receives the list
PolicyCheckReturn(c) ==
    /\ pc[c] = "ret"
    /\ endpoint[c] = "policy_check"
    /\ response' = [response EXCEPT ![c] = Returned(PyList(violations[c]))]
    /\ pc' = [pc EXCEPT ![c] = "idle"]
    /\ UNCHANGED << student, tables, endpoint, payload, locals, memo >>

(***************************************************************************)
(* POST /validate_text                                                     *)
(***************************************************************************)
\* text = payload.text; violations = policy_check(text)
ValidateText(c, t) ==
    /\ Begin(c, "validate_text", [text |-> PyStr(t)], t, "enter")
    /\ response' = [response EXCEPT ![c] = NoResponse]
    /\ UNCHANGED << student, tables, memo >>

\* variant: is_valid is left true on the violation branch
ValidateTextResponseStaleFlag(txt, viol) ==
    IF viol # <<>>
    THEN ValidationResponse("VIOLATION", TRUE, PyNone, PyList(viol))
    ELSE ValidationResponse("OK", TRUE, PyStr(txt), PyNone)

\* variant: the lower-cased text is echoed back
ValidateTextResponseLowered(txt, viol) ==
    IF viol # <<>>
    THEN ValidationResponse("VIOLATION", FALSE, PyNone, PyList(viol))
    ELSE ValidationResponse("OK", TRUE, PyStr(StrLower(txt)), PyNone)

\* variant: the lenient route signals a client-error for a violation
ValidateTextResponseRaises(txt, viol) ==
    IF viol # <<>>
    THEN HTTPException(400, PyDict([error |-> "POLICY_VIOLATION", violations |-> viol]))
    ELSE ValidationResponse("OK", TRUE, PyStr(txt), PyNone)

\* if violations: return ValidationResponse(VIOLATION ...) else (OK ...)
ValidateTextResponse(txt, viol) ==
    IF viol # <<>>
    THEN ValidationResponse("VIOLATION", FALSE, PyNone, PyList(viol))
    ELSE ValidationResponse("OK", TRUE, PyStr(txt), PyNone)

ValidateTextRespond(c) ==
    /\ pc[c] = "ret"
    /\ endpoint[c] = "validate_text"
    /\ response' = [response EXCEPT
           ![c] = ValidateTextResponse(text[c], violations[c])]
    /\ pc' = [pc EXCEPT ![c] = "idle"]
    /\ UNCHANGED << student, tables, endpoint, payload, locals, memo >>

(***************************************************************************)
(* POST /validate_text_strict                                              *)
(***************************************************************************)
\* text = payload.get("text"); if not isinstance(text, str): raise ...
ValidateTextStrict(c, p) ==
    LET txt == DictGet(p, "text")
    IN  IF ~IsStr(txt)
        THEN /\ Begin(c, "validate_text_strict", p, "", "idle")
             /\ response' = [response EXCEPT ![c] =
                    HTTPException(400, PyStr("Field 'text' must be a string."))]
             /\ UNCHANGED << student, tables, memo >>
        ELSE /\ Begin(c, "validate_text_strict", p, txt.v, "enter")
             /\ response' = [response EXCEPT ![c] = NoResponse]
             /\ UNCHANGED << student, tables, memo >>

\* variant: only the first violation is reported
StrictResponseFirstOnly(txt, viol) ==
    IF viol # <<>>
    THEN HTTPException(400, PyDict([error |-> "POLICY_VIOLATION",
                                    violations |-> << viol[1] >>]))
    ELSE Returned(PyDict([status |-> "OK", validated_text |-> txt]))

\* if violations: raise HTTPException(400, {...}) else return {...}
StrictResponse(txt, viol) ==
    IF viol # <<>>
    THEN HTTPException(400, PyDict([error |-> "POLICY_VIOLATION", violations |-> viol]))
    ELSE Returned(PyDict([status |-> "OK", validated_text |-> txt]))

ValidateTextStrictRespond(c) ==
    /\ pc[c] = "ret"
    /\ endpoint[c] = "validate_text_strict"
    /\ response' = [response EXCEPT
           ![c] = StrictResponse(text[c], violations[c])]
    /\ pc' = [pc EXCEPT ![c] = "idle"]
    /\ UNCHANGED << student, tables, endpoint, payload, locals, memo >>

(***************************************************************************)
(* One request of caller 1, its input drawn from Texts and from the        *)
(* payloads of the strict route.                                           *)
(***************************************************************************)
\* caller c has not sent a request yet
Fresh(c) == endpoint[c] = "none"

Next ==
    \/ Fresh(1) /\ \E t \in Texts : PolicyCheckCall(1, t)
    \/ Fresh(1) /\ \E t \in Texts : ValidateText(1, t)
    \/ Fresh(1) /\ \E p \in StrictPayloads(Texts) : ValidateTextStrict(1, p)
    \/ PolicyEnter(1)
    \/ CheckDiscriminatory(1)
    \/ CheckPii(1)
    \/ CheckUnprofessional(1)
    \/ PolicyCheckReturn(1)
    \/ ValidateTextRespond(1)
    \/ ValidateTextStrictRespond(1)

Spec == Init /\ [][Next]_vars

(***************************************************************************)
(* Any number of requests of all callers, interleaved pass by pass, their  *)
(* inputs drawn from ConcTexts.                                            *)
(***************************************************************************)
ConcTexts == { "dumb a@b.co", "because of your age" }

ConcPayloads == {[text |-> PyStr(t)] : t \in ConcTexts} \cup {[text |-> PyInt(42)]}

\* history: remember the list an invocation of policy_check returned
Observe(c) ==
    /\ invoked[c]
    /\ pc[c] \in {"ret", "idle"}
    /\ memo' = [set |-> TRUE, text |-> text[c], result |-> violations[c]]
    /\ UNCHANGED << student, tables, pc, endpoint, payload, locals, response >>

NextConc ==
    \E c \in Callers :
        \/ \E t \in ConcTexts : PolicyCheckCall(c, t)
        \/ \E t \in ConcTexts : ValidateText(c, t)
        \/ \E p \in ConcPayloads : ValidateTextStrict(c, p)
        \/ PolicyEnter(c)
        \/ CheckDiscriminatory(c)
        \/ CheckPii(c)
        \/ CheckUnprofessional(c)
        \/ PolicyCheckReturn(c)
        \/ ValidateTextRespond(c)
        \/ ValidateTextStrictRespond(c)
        \/ Observe(c)

SpecConc == Init /\ [][NextConc]_vars

(***************************************************************************)
(* Properties of policy_check.                                             *)
(***************************************************************************)
HasPrefix(m, p) == Len(m) >= Len(p) /\ SubSeq(m, 1, Len(p)) = p

Count(seq, m) == Cardinality({i \in 1..Len(seq) : seq[i] = m})

\* the first index at which needle occurs in hay (0 when it does not)
IndexOf(hay, needle) ==
    IF Contains(hay, needle)
    THEN CHOOSE i \in 1..(Len(hay) + 1) :
            /\ i + Len(needle) - 1 <= Len(hay)
            /\ SubSeq(hay, i, i + Len(needle) - 1) = needle
            /\ \A j \in 1..(i - 1) : SubSeq(hay, j, j + Len(needle) - 1) # needle
    ELSE 0

\* the number of positions at which needle occurs in hay
Occurrences(hay, needle) ==
    Cardinality({i \in 1..Len(hay) :
                    /\ i + Len(needle) - 1 <= Len(hay)
                    /\ SubSeq(hay, i, i + Len(needle) - 1) = needle})

\* policy_check has returned to caller c; violations[c] is the returned list
PolicyReturned(c) == invoked[c] /\ pc[c] \in {"ret", "idle"}

\* the pass a message belongs to: 1 discriminatory, 2..4 PII by kind,
\* 5 unprofessional, 0 anything else
PassRank(m) ==
    IF HasPrefix(m, "Discriminatory reasoning detected: ") THEN 1
    ELSE IF m = "PII detected: email" THEN 2
    ELSE IF m = "PII detected: phone" THEN 3
    ELSE IF m = "PII detected: ssn" THEN 4
    ELSE IF HasPrefix(m, "Unprofessional language: ") THEN 5
    ELSE 0

OrderedByPass(v) ==
    /\ \A i \in 1..Len(v) : PassRank(v[i]) # 0
    /\ \A i, j \in 1..Len(v) :
          i < j => /\ PassRank(v[i]) <= PassRank(v[j])
                   /\ PassRank(v[i]) >= 2 => PassRank(v[i]) < PassRank(v[j])

\* C1: the list policy_check returns is ordered by pass: discriminatory
\* messages first, then PII messages in the order email, phone, ssn, then at
\* most one unprofessional-language message, last.
C1_PassOrder ==
    \A c \in Callers : PolicyReturned(c) => OrderedByPass(violations[c])

\* a returned list with all three passes present, whose text has the phone
\* number before the e-mail address
C1_Witness ==
    \E c \in Callers :
        /\ PolicyReturned(c)
        /\ Len(violations[c]) = 4
        /\ PassRank(violations[c][1]) = 1
        /\ violations[c][2] = "PII detected: email"
        /\ violations[c][3] = "PII detected: phone"
        /\ PassRank(violations[c][4]) = 5
        /\ IndexOf(text[c], "555-123-4567") < IndexOf(text[c], "dumb@b.co")

\* C2: every banned phrase is tested: the returned list holds the phrase's
\* message exactly once when the phrase occurs in the lower-cased text and
\* not at all otherwise, and the discriminatory messages are in table order.
C2_AllBannedTested ==
    \A c \in Callers :
        PolicyReturned(c) =>
            LET low == StrLower(text[c])
                v == violations[c]
                \* the table index of the phrase a message quotes, 0 if none
                quoted == [i \in 1..Len(v) |->
                              IF \E k \in 1..Len(BANNED_PATTERNS) :
                                    v[i] = DiscriminatoryMessage(BANNED_PATTERNS[k])
                              THEN CHOOSE k \in 1..Len(BANNED_PATTERNS) :
                                    v[i] = DiscriminatoryMessage(BANNED_PATTERNS[k])
                              ELSE 0]
            IN  /\ \A k \in 1..Len(BANNED_PATTERNS) :
                      Cardinality({i \in 1..Len(v) : quoted[i] = k})
                          = IF Contains(low, BANNED_PATTERNS[k]) THEN 1 ELSE 0
                /\ \A i, j \in 1..Len(v) :
                      i < j /\ quoted[i] # 0 /\ quoted[j] # 0 => quoted[i] < quoted[j]

\* the text has 'because of your age' before 'because you are a woman' and
\* the list reports woman first, age second
C2_Witness ==
    \E c \in Callers :
        /\ PolicyReturned(c)
        /\ Contains(text[c], "because of your age")
        /\ IndexOf(text[c], "because of your age")
               < IndexOf(text[c], "because you are a woman")
        /\ violations[c] =
               << "Discriminatory reasoning detected: 'because you are a woman'",
                  "Discriminatory reasoning detected: 'because of your age'" >>

\* two matches of the pattern that do not overlap
TwoMatches(s, alts) ==
    \E i, j \in MatchStarts(s, alts) :
        \E elems \in alts :
            \E e \in MatchEnds(s, i, elems, 1) : WordBoundary(s, e) /\ e <= j

\* C3: the PII pass is presence-only: for each kind the returned list holds
\* 'PII detected: <kind>' once when the kind's detector matches somewhere in
\* the original text and not at all otherwise, whatever the other kinds do.
C3_PiiPresenceOnly ==
    \A c \in Callers :
        PolicyReturned(c) =>
            \A k \in 1..Len(PII_PATTERNS) :
                Count(violations[c], "PII detected: " \o PII_PATTERNS[k])
                    = IF MatchStarts(text[c], PiiRegex(PII_PATTERNS[k])) # {}
                      THEN 1 ELSE 0

\* a text with two e-mail addresses and two phone numbers and no SSN: one
\* message for each of the two kinds, none for ssn
C3_Witness ==
    \E c \in Callers :
        /\ PolicyReturned(c)
        /\ TwoMatches(text[c], EmailRegex)
        /\ TwoMatches(text[c], PhoneRegex)
        /\ ~Search(text[c], SsnRegex)
        /\ Count(violations[c], "PII detected: email") = 1
        /\ Count(violations[c], "PII detected: phone") = 1
        /\ Count(violations[c], "PII detected: ssn") = 0

UnprofessionalPrefix == "Unprofessional language: "

\* the indices of the table words that occur in the lower-cased text
WordsHit(txt) ==
    LET low == StrLower(txt)
    IN  {k \in 1..Len(unprofessional_words) : Contains(low, unprofessional_words[k])}

RECURSIVE SumLen(_, _)
\* the total length of the words of the table whose index is in ks
SumLen(ks, n) ==
    IF n = 0 THEN 0
    ELSE (IF n \in ks THEN Len(unprofessional_words[n]) ELSE 0) + SumLen(ks, n - 1)

\* body lists exactly the words of index in ks, once each, in table order,
\* separated by a comma and a space
ListsWords(body, ks) ==
    /\ \A k \in 1..Len(unprofessional_words) :
          Occurrences(body, unprofessional_words[k]) = IF k \in ks THEN 1 ELSE 0
    /\ \A k, l \in ks :
          k < l => IndexOf(body, unprofessional_words[k])
                       < IndexOf(body, unprofessional_words[l])
    /\ \A k \in ks :
          LET after == IndexOf(body, unprofessional_words[k])
                           + Len(unprofessional_words[k])
          IN  IF \E l \in ks : l > k
              THEN SubSeq(body, after, after + 1) = ", "
              ELSE after = Len(body) + 1
    /\ Len(body) = SumLen(ks, Len(unprofessional_words)) + 2 * (Cardinality(ks) - 1)

\* C4: the unprofessional-language pass emits one combined message listing
\* every matched word once, in table order, when at least one of the words
\* occurs in the lower-cased text, and no message of this category otherwise.
C4_UnprofessionalCombined ==
    \A c \in Callers :
        PolicyReturned(c) =>
            LET v == violations[c]
                at == {i \in 1..Len(v) : HasPrefix(v[i], UnprofessionalPrefix)}
                ks == WordsHit(text[c])
            IN  IF ks = {} THEN at = {}
                ELSE /\ Cardinality(at) = 1
                     /\ \A i \in at :
                           ListsWords(SubSeq(v[i], Len(UnprofessionalPrefix) + 1,
                                             Len(v[i])), ks)

\* 'dumb' occurs twice in the text and before 'stupid'; the message lists
\* stupid first and dumb once
C4_Witness ==
    \E c \in Callers :
        /\ PolicyReturned(c)
        /\ Occurrences(StrLower(text[c]), "dumb") = 2
        /\ IndexOf(StrLower(text[c]), "dumb") < IndexOf(StrLower(text[c]), "stupid")
        /\ violations[c] = << "Unprofessional language: stupid, dumb" >>

\* no pass matches the text
Clean(txt) ==
    /\ LET low == StrLower(txt)
       IN  \A k \in 1..Len(BANNED_PATTERNS) : ~Contains(low, BANNED_PATTERNS[k])
    /\ \A k \in 1..Len(PII_PATTERNS) : MatchStarts(txt, PiiRegex(PII_PATTERNS[k])) = {}
    /\ WordsHit(txt) = {}

\* caller c holds the response of the lenient route
LenientAnswered(c) ==
    /\ endpoint[c] = "validate_text"
    /\ pc[c] = "idle"
    /\ response[c].kind = "ValidationResponse"

\* C5: policy_check returns the empty list exactly for the texts no pass
\* matches (the empty string among them), and the lenient route answers
\* such a text with is_valid = true.
C5_CleanIffEmpty ==
    \A c \in Callers :
        /\ PolicyReturned(c) => ((violations[c] = <<>>) <=> Clean(text[c]))
        /\ PolicyReturned(c) /\ text[c] = "" => violations[c] = <<>>
        /\ endpoint[c] = "validate_text" /\ pc[c] = "idle" /\ Clean(text[c])
               => LenientAnswered(c) /\ response[c].is_valid = TRUE

\* a non-empty clean text with upper-case letters, answered as valid
C5_Witness ==
    \E c \in Callers :
        /\ LenientAnswered(c)
        /\ Len(text[c]) > 4
        /\ text[c] # StrLower(text[c])
        /\ Clean(text[c])
        /\ violations[c] = <<>>
        /\ response[c].is_valid = TRUE

(***************************************************************************)
(* Properties of the two routes.                                           *)
(***************************************************************************)
\* C7: in every response of validate_text, is_valid is true exactly when
\* policy_check returned no violations, status is "OK" exactly when is_valid
\* is true and "VIOLATION" exactly when it is false, and there is no other
\* status.
C7_LenientVerdict ==
    \A c \in Callers :
        endpoint[c] = "validate_text" /\ pc[c] = "idle" =>
            /\ response[c].kind = "ValidationResponse"
            /\ invoked[c]
            /\ response[c].is_valid <=> (violations[c] = <<>>)
            /\ response[c].status \in {"OK", "VIOLATION"}
            /\ (response[c].status = "OK") <=> response[c].is_valid
            /\ (response[c].status = "VIOLATION") <=> ~response[c].is_valid

\* a negative verdict of the lenient route
C7_Witness ==
    \E c \in Callers :
        /\ LenientAnswered(c)
        /\ violations[c] # <<>>
        /\ response[c].status = "VIOLATION"
        /\ response[c].is_valid = FALSE

\* C8: in a response of validate_text, validated_text is present only when
\* the text is valid and then equals the input text unmodified, violations
\* is present only when the text is invalid and then is the list policy_check
\* returned, and the two are never both present.
C8_LenientFields ==
    \A c \in Callers :
        LenientAnswered(c) =>
            LET r == response[c]
            IN  /\ r.validated_text.t # "NoneType" =>
                      /\ r.is_valid
                      /\ r.validated_text.t = "str"
                      /\ r.validated_text.v = payload[c].text.v
                /\ r.violations.t # "NoneType" =>
                      /\ ~r.is_valid
                      /\ r.violations.t = "list"
                      /\ r.violations.v = violations[c]
                /\ r.validated_text.t = "NoneType" \/ r.violations.t = "NoneType"

\* a valid text with upper-case letters comes back unmodified, without a
\* violations field
C8_Witness ==
    \E c \in Callers :
        /\ LenientAnswered(c)
        /\ response[c].is_valid
        /\ response[c].validated_text.t = "str"
        /\ response[c].validated_text.v = "Good luck"
        /\ response[c].violations.t = "NoneType"

\* the payload has a 'text' field and its value is a string
TextIsString(p) == "text" \in DOMAIN p /\ p.text.t = "str"

\* C9: when the payload of validate_text_strict has no 'text' field or a
\* 'text' that is not a string, the call signals the client-error
\* "Field 'text' must be a string." and policy_check is never invoked.
C9_StrictTypeCheck ==
    \A c \in Callers :
        endpoint[c] = "validate_text_strict" /\ ~TextIsString(payload[c]) =>
            /\ pc[c] = "idle"
            /\ ~invoked[c]
            /\ violations[c] = <<>>
            /\ response[c].kind = "HTTPException"
            /\ response[c].status_code = 400
            /\ response[c].detail.t = "str"
            /\ response[c].detail.v = "Field 'text' must be a string."

\* a payload whose 'text' is a number is answered with the client-error
C9_Witness ==
    \E c \in Callers :
        /\ endpoint[c] = "validate_text_strict"
        /\ "text" \in DOMAIN payload[c]
        /\ payload[c].text.t = "int"
        /\ response[c].kind = "HTTPException"
        /\ response[c].detail.t = "str"
        /\ ~invoked[c]

\* C10: for a payload whose 'text' is a string, validate_text_strict either
\* signals a client-error carrying error POLICY_VIOLATION and the full list
\* of policy_check, when the text has violations, or returns status OK with
\* the unmodified text, when the text is clean; never OK for a text with
\* violations.
C10_StrictOutcomes ==
    \A c \in Callers :
        /\ endpoint[c] = "validate_text_strict"
        /\ TextIsString(payload[c])
        /\ pc[c] = "idle"
        => LET r == response[c]
               t == payload[c].text.v
           IN  /\ invoked[c]
               /\ \/ /\ ~Clean(t)
                     /\ violations[c] # <<>>
                     /\ r.kind = "HTTPException"
                     /\ r.status_code = 400
                     /\ r.detail.t = "dict"
                     /\ r.detail.v = [error |-> "POLICY_VIOLATION",
                                      violations |-> violations[c]]
                  \/ /\ Clean(t)
                     /\ violations[c] = <<>>
                     /\ r.kind = "return"
                     /\ r.value.t = "dict"
                     /\ r.value.v = [status |-> "OK", validated_text |-> t]

\* the strict route rejects a text with several violations and carries all
\* of them
C10_Witness ==
    \E c \in Callers :
        /\ endpoint[c] = "validate_text_strict"
        /\ TextIsString(payload[c])
        /\ pc[c] = "idle"
        /\ response[c].kind = "HTTPException"
        /\ response[c].detail.t = "dict"
        /\ Len(response[c].detail.v.violations) >= 3

(***************************************************************************)
(* Properties over several invocations.                                    *)
(***************************************************************************)
\* C6: two invocations of policy_check on the same text return the same
\* list, whatever invocations happened before or in between: a returned list
\* equals the list remembered from any invocation on the same text, and the
\* lists two callers hold for the same text are equal.
C6_Determinism ==
    \A c \in Callers :
        invoked[c] /\ pc[c] \in {"ret", "idle"} =>
            /\ memo.set /\ memo.text = text[c] => violations[c] = memo.result
            /\ \A d \in Callers :
                  invoked[d] /\ pc[d] \in {"ret", "idle"} /\ text[d] = text[c]
                      => violations[d] = violations[c]

\* two callers hold the same non-empty list for the same text, which is also
\* the remembered one, through different routes
C6_Witness ==
    \E c, d \in Callers :
        /\ c # d
        /\ endpoint[c] # endpoint[d]
        /\ invoked[c] /\ pc[c] = "idle"
        /\ invoked[d] /\ pc[d] = "idle"
        /\ text[c] = text[d]
        /\ memo.set /\ memo.text = text[c]
        /\ Len(memo.result) = 2
        /\ violations[c] = memo.result
        /\ violations[d] = memo.result

(***************************************************************************)
(* The same text sent through both routes: caller 1 asks validate_text,    *)
(* caller 2 sends caller 1's text to validate_text_strict.                 *)
(***************************************************************************)
NextBoth ==
    \/ Fresh(1) /\ \E t \in Texts : ValidateText(1, t)
    \/ ~Fresh(1) /\ Fresh(2) /\ ValidateTextStrict(2, [text |-> PyStr(text[1])])
    \/ \E c \in {1, 2} : PolicyEnter(c)
    \/ \E c \in {1, 2} : CheckDiscriminatory(c)
    \/ \E c \in {1, 2} : CheckPii(c)
    \/ \E c \in {1, 2} : CheckUnprofessional(c)
    \/ ValidateTextRespond(1)
    \/ ValidateTextStrictRespond(2)

SpecBoth == Init /\ [][NextBoth]_vars

\* callers c and d have both been answered, c by validate_text and d by
\* validate_text_strict, for the same string
AnsweredBoth(c, d) ==
    /\ endpoint[c] = "validate_text" /\ pc[c] = "idle"
    /\ response[c].kind # "none"
    /\ endpoint[d] = "validate_text_strict" /\ pc[d] = "idle"
    /\ response[d].kind # "none"
    /\ TextIsString(payload[d])
    /\ payload[d].text.v = text[c]

\* C11: for the same text the lenient route never answers with an error: it
\* returns a normal response, is_valid being true exactly when the strict
\* route returns status "OK" and false (status "VIOLATION") exactly when the
\* strict route raises the 400 client-error, and then both carry the same
\* list of violations.
C11_LenientStrictAgree ==
    \A c, d \in Callers :
        AnsweredBoth(c, d) =>
            LET l == response[c]
                s == response[d]
            IN  /\ l.kind = "ValidationResponse"
                /\ s.kind \in {"return", "HTTPException"}
                /\ l.is_valid <=> (s.kind = "return" /\ s.value.v.status = "OK")
                /\ ~l.is_valid <=> (s.kind = "HTTPException" /\ s.status_code = 400)
                /\ ~l.is_valid =>
                      /\ l.status = "VIOLATION"
                      /\ l.violations.t = "list"
                      /\ s.detail.t = "dict"
                      /\ l.violations.v = s.detail.v.violations

\* one text with violations of two passes: a normal VIOLATION response from
\* the lenient route, the 400 with the same list from the strict route
C11_Witness ==
    \E c, d \in Callers :
        /\ AnsweredBoth(c, d)
        /\ response[c].kind = "ValidationResponse"
        /\ response[c].status = "VIOLATION"
        /\ response[d].kind = "HTTPException"
        /\ Len(response[d].detail.v.violations) >= 2
        /\ response[c].violations.v = response[d].detail.v.violations

(***************************************************************************)
(* Interleaved invocations against an invocation run alone.                *)
(***************************************************************************)
\* policy_check(text) run from entry to return with nothing in between
PolicyCheck(txt) ==
    LET low == StrLower(txt)
    IN  DiscriminatoryPass(low, BANNED_PATTERNS)
        \o PiiPass(txt, PII_PATTERNS)
        \o UnprofessionalPass(low, unprofessional_words)

\* C12: with the callers interleaved in any way, every invocation of
\* policy_check, direct or through either route, returns the list it returns
\* when run alone on its text, and the route's answer carries that list.
C12_NoInterference ==
    \A c \in Callers :
        /\ invoked[c] /\ pc[c] = "ret" => violations[c] = PolicyCheck(text[c])
        /\ invoked[c] /\ pc[c] = "idle" =>
              /\ endpoint[c] = "policy_check" =>
                    response[c] = Returned(PyList(violations[c]))
              /\ endpoint[c] = "validate_text" =>
                    response[c] = ValidateTextResponse(text[c], violations[c])
              /\ endpoint[c] = "validate_text_strict" =>
                    response[c] = StrictResponse(text[c], violations[c])

\* an invocation has returned its own list while another caller, working on
\* a different text, is between two passes with messages already collected
C12_Witness ==
    \E c, d \in Callers :
        /\ c # d
        /\ invoked[c] /\ pc[c] = "ret"
        /\ violations[c] = PolicyCheck(text[c])
        /\ pc[d] \in {"pass2", "pass3"}
        /\ text[d] # text[c]
        /\ violations[d] # <<>>

\* C13: no operation changes the pattern tables: in every state, whatever
\* calls were made and however they ended, the tables hold their initial
\* contents, and an invocation that is entered finds nothing left from an
\* earlier call (no lower-cased text, an empty list).
C13_TablesUnchanged ==
    /\ banned_patterns = BANNED_PATTERNS
    /\ pii_patterns = PII_PATTERNS
    /\ \A c \in Callers :
          pc[c] = "enter" => lower[c] = "" /\ violations[c] = <<>> /\ ~invoked[c]

\* after an observed invocation that found violations and a strict call
\* that ended in a 400, a new invocation is entered with the initial tables
C13_Witness ==
    \E c, e \in Callers :
        /\ response[c].kind = "HTTPException"
        /\ response[c].status_code = 400
        /\ memo.set
        /\ memo.result # <<>>
        /\ pc[e] = "enter"
        /\ banned_patterns = BANNED_PATTERNS
        /\ pii_patterns = PII_PATTERNS

(***************************************************************************)
(* One direct call of policy_check on a string that is hard in one of the *)
(* ways a text can be: empty, control characters only, a letter outside   *)
(* ASCII, PII cut short or wrapped in word characters.  The call is run   *)
(* to its end: the interpreter executes the body statement after          *)
(* statement and nothing in it waits for anything.                        *)
(***************************************************************************)
TotalTexts ==
    { "", " ", "\t", "\n\r\f", KelvinSign, "\ta@b.co" \o KelvinSign,
      KelvinSign \o "DUMB" \o KelvinSign, "a@", "@b.co", "a@b.c", "a@b.co",
      "a|b@c.d|e", "555-123-456", "555-123-45678", "(555) 123 4567",
      "+1 (555", "123-45-678", "x123-45-6789", "123-45-6789",
      "because you are a", "stupid\tidiot" }

\* the statements of policy_check and its return to the direct caller
Run(c) ==
    \/ PolicyEnter(c)
    \/ CheckDiscriminatory(c)
    \/ CheckPii(c)
    \/ CheckUnprofessional(c)
    \/ PolicyCheckReturn(c)

NextTotal ==
    \/ Fresh(1) /\ \E t \in TotalTexts : PolicyCheckCall(1, t)
    \/ PolicyEnter(1)
    \/ CheckDiscriminatory(1)
    \/ CheckPii(1)
    \/ CheckUnprofessional(1)
    \/ PolicyCheckReturn(1)

SpecTotal == Init /\ [][NextTotal]_vars /\ WF_vars(Run(1))

\* v is a list of messages of the three passes
ListOfMessages(v) == \A i \in 1..Len(v) : PassRank(v[i]) # 0

\* the direct call of caller c has ended with a returned list of messages
ReturnedList(c) ==
    /\ pc[c] = "idle"
    /\ response[c].kind = "return"
    /\ response[c].value.t = "list"
    /\ ListOfMessages(response[c].value.v)

\* C14: policy_check is total over strings: every call that is entered
\* comes to its end, and it ends with a returned list of messages, never
\* with an error.
C14_Total ==
    /\ (pc[1] = "enter") ~> ReturnedList(1)
    /\ [](endpoint[1] = "policy_check" /\ pc[1] = "idle" => ReturnedList(1))

\* the invocation on a text with a tab, a would-be e-mail address and a
\* letter outside ASCII has come to its return, the list being empty
C14_Witness ==
    /\ ReturnedList(1)
    /\ text[1] = "\ta@b.co" \o KelvinSign
    /\ response[1].value.v = <<>>

\* the messages of v that belong to the passes of rank in ranks, in order
OfPasses(v, ranks) == SelectSeq(v, LAMBDA m : PassRank(m) \in ranks)

\* C15: the three passes are independent and all run: the messages of each
\* pass in the returned list are exactly what that pass yields from the text
\* and its own table, whatever the other passes found, and the list is the
\* three outputs one after the other with nothing dropped or merged.
C15_PassesIndependent ==
    \A c \in Callers :
        invoked[c] /\ pc[c] = "ret" =>
            LET v == violations[c]
                low == StrLower(text[c])
                first == DiscriminatoryPass(low, BANNED_PATTERNS)
                second == PiiPass(text[c], PII_PATTERNS)
                third == UnprofessionalPass(low, unprofessional_words)
            IN  /\ OfPasses(v, {1}) = first
                /\ OfPasses(v, {2, 3, 4}) = second
                /\ OfPasses(v, {5}) = third
                /\ v = first \o second \o third

\* all three passes report, and the only 'dumb' of the text lies inside the
\* e-mail address the second pass matched
C15_Witness ==
    \E c \in Callers :
        /\ invoked[c] /\ pc[c] = "ret"
        /\ Occurrences(StrLower(text[c]), "dumb") = 1
        /\ Contains(text[c], "dumb@b.co")
        /\ violations[c] =
               << "Discriminatory reasoning detected: 'because you are a woman'",
                  "PII detected: email",
                  "PII detected: phone",
                  "Unprofessional language: dumb" >>

\* the upper-case form of one character (the Kelvin sign is upper-case)
CharUpper(ch) ==
    IF ch \in LowerCase
    THEN CHOOSE u \in Upper : CharLower(u) = ch
    ELSE ch

RECURSIVE StrUpper(_)
\* the text with every letter in upper case: a text that differs from s in
\* letter case only
StrUpper(s) ==
    IF Len(s) = 0 THEN ""
    ELSE IF Len(s) = 1 THEN CharUpper(s)
    ELSE StrUpper(SubSeq(s, 1, Len(s) \div 2))
         \o StrUpper(SubSeq(s, Len(s) \div 2 + 1, Len(s)))

\* the part of a message that quotes the table
Quoted(m) ==
    IF PassRank(m) = 1
    THEN SubSeq(m, Len("Discriminatory reasoning detected: ") + 1, Len(m))
    ELSE SubSeq(m, Len(UnprofessionalPrefix) + 1, Len(m))

\* C16: the discriminatory and unprofessional messages of the returned list
\* are those of the text's upper-case form, a text that differs from it in
\* letter case only, and quote the table in lower case whatever the casing
\* of the text; the PII messages are those of the detectors run on the text
\* as given, and nothing but lower-casing is applied to the text.
C16_CaseHandling ==
    \A c \in Callers :
        invoked[c] /\ pc[c] = "ret" =>
            LET v == violations[c]
                other == StrLower(StrUpper(text[c]))
            IN  /\ OfPasses(v, {1}) = DiscriminatoryPass(other, BANNED_PATTERNS)
                /\ OfPasses(v, {5}) = UnprofessionalPass(other, unprofessional_words)
                /\ \A i \in 1..Len(v) :
                      PassRank(v[i]) \in {1, 5} => Quoted(v[i]) = StrLower(Quoted(v[i]))
                /\ OfPasses(v, {2, 3, 4}) = PiiPass(text[c], PII_PATTERNS)

\* a text with a banned phrase in capitals and an address that ends in the
\* Kelvin sign: the phrase is reported in lower case, and no e-mail address
\* is reported although the lower-cased text has one
C16_Witness ==
    \E c \in Callers :
        /\ invoked[c] /\ pc[c] = "ret"
        /\ Contains(text[c], "Because You Are A Man")
        /\ ~Contains(text[c], "because you are a man")
        /\ Contains(text[c], "a@b.co" \o KelvinSign)
        /\ Search(StrLower(text[c]), EmailRegex)
        /\ violations[c] =
               << "Discriminatory reasoning detected: 'because you are a man'" >>

\* the indices at which p occurs in hay
OccursAt(hay, p) ==
    {i \in 1..Len(hay) :
        /\ i + Len(p) - 1 <= Len(hay)
        /\ SubSeq(hay, i, i + Len(p) - 1) = p}

\* p occurs in hay, and every occurrence has a word character right before
\* it or right after it: p occurs only as a piece of a longer word
EmbeddedOnly(hay, p) ==
    /\ OccursAt(hay, p) # {}
    /\ \A i \in OccursAt(hay, p) :
          \/ IsWordAt(hay, i - 1)
          \/ IsWordAt(hay, i + Len(p))

\* C17: passes 1 and 3 match by plain substring containment: a banned
\* phrase or an unprofessional word that occurs in the lower-cased text only
\* as a piece of a longer word is reported all the same.
C17_SubstringMatch ==
    \A c \in Callers :
        invoked[c] /\ pc[c] = "ret" =>
            LET v == violations[c]
                low == StrLower(text[c])
            IN  /\ \A k \in 1..Len(BANNED_PATTERNS) :
                      EmbeddedOnly(low, BANNED_PATTERNS[k])
                          => Count(v, DiscriminatoryMessage(BANNED_PATTERNS[k])) = 1
                /\ \A k \in 1..Len(unprofessional_words) :
                      EmbeddedOnly(low, unprofessional_words[k])
                          => \E i \in 1..Len(v) :
                                /\ PassRank(v[i]) = 5
                                /\ OccursAt(Quoted(v[i]), unprofessional_words[k]) # {}

\* 'Because You Are A Manager DUMBbell': the phrase and the word occur only
\* inside a longer word and both are reported
C17_Witness ==
    \E c \in Callers :
        /\ invoked[c] /\ pc[c] = "ret"
        /\ EmbeddedOnly(StrLower(text[c]), "because you are a man")
        /\ EmbeddedOnly(StrLower(text[c]), "dumb")
        /\ violations[c] =
               << "Discriminatory reasoning detected: 'because you are a man'",
                  "Unprofessional language: dumb" >>

\* C18: the returned list has no message twice and at most 14 entries: at
\* most 10 discriminatory ones (one for each banned phrase), at most 3 PII
\* ones (one for each kind) and at most 1 unprofessional one, however long
\* the text is and however often a pattern occurs in it.
C18_BoundedNoDuplicates ==
    /\ Len(BANNED_PATTERNS) = 10
    /\ Len(PII_PATTERNS) = 3
    /\ \A c \in Callers :
          invoked[c] =>
              LET v == violations[c]
              IN  /\ \A i, j \in 1..Len(v) : i # j => v[i] # v[j]
                  /\ Len(OfPasses(v, {1})) <= 10
                  /\ Len(OfPasses(v, {2, 3, 4})) <= 3
                  /\ Len(OfPasses(v, {5})) <= 1
                  /\ Len(v) <= 14

\* a text with the same banned phrase twice, the phrase reported once
C18_Witness ==
    \E c \in Callers :
        /\ invoked[c] /\ pc[c] = "ret"
        /\ Cardinality(OccursAt(text[c], "because you are a woman")) = 2
        /\ violations[c] =
               << "Discriminatory reasoning detected: 'because you are a woman'" >>

(***************************************************************************)
(* POST /support  (src/student_support/app.py)                             *)
(***************************************************************************)
\* bool(v) of an Optional[str]
Truthy(v) == v.t = "str" /\ v.v # ""

RECURSIVE LStrip(_)
LStrip(s) ==
    IF Len(s) > 0 /\ Char(s, 1) \in Space THEN LStrip(SubSeq(s, 2, Len(s))) ELSE s

RECURSIVE RStrip(_)
RStrip(s) ==
    IF Len(s) > 0 /\ Char(s, Len(s)) \in Space
    THEN RStrip(SubSeq(s, 1, Len(s) - 1)) ELSE s

\* str.strip()
Strip(s) == RStrip(LStrip(s))

\* StudentRequest(prompt=...)
StudentRequest(p) == [t |-> "StudentRequest", prompt |-> p]

\* SupportResponse(status=..., result=...)
SupportResponse(status, result) ==
    [kind |-> "SupportResponse", status |-> status, result |-> result]

\* an exception that is not an HTTPException, str(e) being msg
Exception(msg) == [kind |-> "Exception", msg |-> msg]

\* the strings a body or a query parameter carries
Prompts == {"", " ", " \t", "Which master fits me?", " plan my term "}

Bodies == {PyNone} \cup {StudentRequest(p) : p \in Prompts}

Params == {PyNone} \cup {PyStr(p) : p \in Prompts}

\* what run_student_support_crew does with a prompt: it returns the crew's
\* text, or the crew run fails
CrewOutcomes ==
    { [ok |-> TRUE, value |-> "APPROVED - Recommendations are ethical and bias-free."],
      [ok |-> FALSE, value |-> "LLM provider unreachable"] }

\* if request and request.prompt: ... elif key: ... elif prompt: ...
ChoosePrompt(req, k, p) ==
    IF req.t = "StudentRequest" /\ req.prompt # "" THEN PyStr(req.prompt)
    ELSE IF Truthy(k) THEN k
    ELSE IF Truthy(p) THEN p
    ELSE PyNone

\* variant: every exception of the body, the 400 included, becomes the 500
SupportExceptAll(e) ==
    HTTPException(500,
        PyStr("Error processing student support request: "
              \o (IF e.kind = "HTTPException" THEN "400: " \o e.detail.v ELSE e.msg)))

\* except HTTPException: raise / except Exception as e: raise HTTPException(500, ...)
SupportExcept(e) ==
    IF e.kind = "HTTPException" THEN e
    ELSE HTTPException(500,
             PyStr("Error processing student support request: " \o e.msg))

\* the handler up to the call of the crew
GetStudentSupport(req, k, p) ==
    /\ support_pc = "idle"
    /\ request' = req
    /\ key' = k
    /\ prompt' = p
    /\ user_prompt' = ChoosePrompt(req, k, p)
    /\ IF ~Truthy(user_prompt') \/ Strip(user_prompt'.v) = ""
       THEN /\ support_response' = SupportExcept(HTTPException(400,
                   PyStr("Prompt cannot be empty. Provide via JSON body, ?key= or ?prompt= parameter")))
            /\ support_pc' = "done"
       ELSE /\ support_response' = NoResponse
            /\ support_pc' = "crew"
    /\ UNCHANGED << guardrails, analysis, crew_log >>

\* result = run_student_support_crew(user_prompt) and the answer
SupportCrew(outcome) ==
    /\ support_pc = "crew"
    /\ crew_log' = Append(crew_log, user_prompt.v)
    /\ support_response' =
           IF outcome.ok
           THEN SupportResponse("success", outcome.value)
           ELSE SupportExcept(Exception(outcome.value))
    /\ support_pc' = "done"
    /\ UNCHANGED << guardrails, analysis, request, key, prompt, user_prompt >>

NextSupport ==
    \/ \E req \in Bodies, k \in Params, p \in Params : GetStudentSupport(req, k, p)
    \/ \E outcome \in CrewOutcomes : SupportCrew(outcome)

SpecSupport == Init /\ [][NextSupport]_vars

\* an Optional[str] that is given and not empty
Given(v) == v # PyNone /\ v.v # ""

\* the body is given and its prompt is not empty
BodyGiven == request # PyNone /\ request.prompt # ""

\* v is None, empty or made of whitespace only
Blank(v) == v = PyNone \/ \A i \in 1..Len(v.v) : Char(v.v, i) \in Space

\* C19: /support takes the prompt of the body when it is given and not
\* empty, else 'key', else 'prompt'; a chosen prompt that is missing, empty
\* or whitespace only is answered with the 400 as raised and the crew is not
\* run; otherwise the crew is run once with the chosen prompt, and the 500
\* is answered only when that run failed.
C19_SupportPrompt ==
    support_pc # "idle" =>
        /\ BodyGiven => user_prompt = PyStr(request.prompt)
        /\ ~BodyGiven /\ Given(key) => user_prompt = key
        /\ ~BodyGiven /\ ~Given(key) /\ Given(prompt) => user_prompt = prompt
        /\ ~BodyGiven /\ ~Given(key) /\ ~Given(prompt) => user_prompt = PyNone
        /\ support_pc = "crew" => ~Blank(user_prompt) /\ crew_log = <<>>
        /\ support_pc = "done" /\ Blank(user_prompt) =>
              /\ support_response.kind = "HTTPException"
              /\ support_response.status_code = 400
              /\ crew_log = <<>>
        /\ support_pc = "done" /\ ~Blank(user_prompt) =>
              /\ crew_log = << user_prompt.v >>
              /\ \/ /\ support_response.kind = "SupportResponse"
                    /\ support_response.status = "success"
                 \/ /\ support_response.kind = "HTTPException"
                    /\ support_response.status_code = 500

\* the body's prompt is a blank, 'key' carries a question: the blank is
\* chosen, the answer is the 400 and the crew was not run
C19_Witness ==
    /\ support_pc = "done"
    /\ request = StudentRequest(" ")
    /\ key = PyStr("Which master fits me?")
    /\ user_prompt = PyStr(" ")
    /\ support_response.kind = "HTTPException"
    /\ support_response.status_code = 400
    /\ crew_log = <<>>

(***************************************************************************)
(* POST /analyze  (src/student_support/app.py)                             *)
(* A dict is a record, d.get(k, default) is Get(d, k, default).  Of the    *)
(* answer only status, top_jobs and sources_used are kept.                 *)
(***************************************************************************)
Get(d, k, default) == IF k \in DOMAIN d THEN d[k] ELSE default

\* a or b on strings, None standing as ""
Or(a, b) == IF a # "" THEN a ELSE b

\* s[:n]
Prefix(s, n) == SubSeq(s, 1, IF Len(s) < n THEN Len(s) ELSE n)

\* AnalyzeRequest(query=..., jobs=..., skills=..., ethics_guidelines=...)
AnalyzeRequest(query, js, ss, es) ==
    [t |-> "AnalyzeRequest", query |-> query, jobs |-> js, skills |-> ss,
     ethics_guidelines |-> es]

\* documents of the retrieval service
DJob ==
    [content |-> "Backend developer",
     metadata |-> [type |-> "job_description", study_program |-> "Informatics"]]
DSkill ==
    [content |-> "SQL course",
     metadata |-> [type |-> "skill_learning_path", title |-> "SQL", skills |-> "joins"]]
DEthics ==
    [content |-> "Fairness", meta |-> [type |-> "ethics_guideline", title |-> "Fairness"]]
DDirect == [content |-> "Job fair in May", type |-> "Job posting"]
DUnknown == [content |-> "Canteen menu", metadata |-> [type |-> "news"]]

\* what the POST to the retrieval service ends in: no connection, an error
\* status, or a JSON body (a dict with a list of documents, a dict whose
\* documents are null, a dict without documents, an array)
HaystackReplies ==
    { [kind |-> "RequestError", msg |-> "All connection attempts failed"],
      [kind |-> "HTTPStatusError", msg |-> "Server error '503 Service Unavailable'"],
      [kind |-> "json", data |-> PyDict([documents |-> PyList(<< DJob, DSkill >>)])],
      [kind |-> "json",
       data |-> PyDict([documents |-> PyList(<< DEthics, DDirect, DUnknown >>)])],
      [kind |-> "json", data |-> PyDict([documents |-> PyNone])],
      [kind |-> "json", data |-> PyDict([status |-> "ok"])],
      [kind |-> "json", data |-> PyList(<<>>)] }

\* {"documents": [], "error": str(e)}
SearchError(msg) == PyDict([documents |-> PyList(<<>>), error |-> msg])

\* search_haystack: the value it returns for a reply; every exception of
\* the body, len() of null documents among them, ends in SearchError
SearchHaystack(reply) ==
    IF reply.kind # "json" THEN SearchError(reply.msg)
    ELSE IF reply.data.t = "dict"
              /\ "documents" \in DOMAIN reply.data.v
              /\ reply.data.v.documents.t # "list"
         THEN SearchError("object of type 'NoneType' has no len()")
         ELSE reply.data

\* results.get("documents", []) of a dict
DocumentsOf(results) == Get(results.v, "documents", PyList(<<>>)).v

\* where a document goes ("jobs", "skills", "ethics" or "") and what is put
\* there: its metadata, its meta, or the document itself
Sorted(doc) ==
    IF "metadata" \in DOMAIN doc \/ "meta" \in DOMAIN doc
    THEN LET m == IF "metadata" \in DOMAIN doc THEN doc.metadata ELSE doc.meta
             doc_type == Get(m, "type", "")
         IN  [item |-> m,
              to |-> IF doc_type = "job_description" THEN "jobs"
                     ELSE IF doc_type = "skill_learning_path" THEN "skills"
                     ELSE IF doc_type = "ethics_guideline" THEN "ethics"
                     ELSE ""]
    ELSE LET doc_type == StrLower(Get(doc, "type", ""))
         IN  [item |-> doc,
              to |-> IF Contains(doc_type, "job") THEN "jobs"
                     ELSE IF Contains(doc_type, "skill") THEN "skills"
                     ELSE IF Contains(doc_type, "ethics") THEN "ethics"
                     ELSE ""]

\* the items of the documents that go to the list named to, in order
Parsed(docs, to) ==
    LET hits == SelectSeq(docs, LAMBDA doc : Sorted(doc).to = to)
    IN  [i \in 1..Len(hits) |-> Sorted(hits[i]).item]

\* str(i) of the positions the formatters number
IntStr == << "1", "2", "3", "4", "5" >>

\* format_jobs_for_prompt
FormatJobs(js) ==
    IF js = <<>> THEN "..."
    ELSE LET shown == Prefix(js, 5)
         IN  Join([i \in 1..Len(shown) |->
                      IntStr[i] \o ". "
                      \o Or(Get(shown[i], "study_program", ""),
                            Or(Get(shown[i], "title", ""),
                               Prefix(Get(shown[i], "content", "No content"), 100)))],
                  "\n")

\* format_skills_for_prompt
FormatSkills(ss) ==
    IF ss = <<>> THEN "No specific skills provided - recommend based on query"
    ELSE LET shown == Prefix(ss, 5)
         IN  Join([i \in 1..Len(shown) |->
                      IntStr[i] \o ". "
                      \o Or(Get(shown[i], "study_program", ""),
                            Get(shown[i], "title", "Unknown"))
                      \o ": "
                      \o Get(shown[i], "skills", Get(shown[i], "content", ""))],
                  "\n")

\* format_ethics_for_prompt
FormatEthics(es) ==
    IF es = <<>>
    THEN "Standard ethics: Provide fair, unbiased, merit-based recommendations"
    ELSE LET shown == Prefix(es, 3)
         IN  Join([i \in 1..Len(shown) |->
                      "- " \o Get(shown[i], "title", "Ethics Guideline") \o ": "
                      \o Prefix(Get(shown[i], "content", ""), 150) \o "..."],
                  "\n")

\* enriched_prompt: the four texts put into the template
EnrichedPrompt(query, js, ss, es) ==
    [query |-> query, jobs |-> FormatJobs(js), skills |-> FormatSkills(ss),
     ethics |-> FormatEthics(es)]

\* the lists a request can carry
Job(n) == [title |-> "Job " \o IntStr[n], content |-> "Opening " \o IntStr[n]]

RequestJobs ==
    { <<>>, << [study_program |-> "Informatics"] >>,
      << Job(1), Job(2), Job(3), Job(4), Job(5), [content |-> "Sixth opening"] >> }

RequestSkills == { <<>>, << [title |-> "Statistics", skills |-> "R, regression"] >> }

RequestEthics == { <<>>, << [title |-> "Merit", content |-> "Judge by merit only"] >> }

AnalyzeRequests ==
    { AnalyzeRequest("data science", js, ss, es) :
          js \in RequestJobs, ss \in RequestSkills, es \in RequestEthics }

\* variant: the retrieval service is asked when either list is missing
NeedsRetrievalEither(js, ss) == js = <<>> \/ ss = <<>>

\* if not jobs and not skills
NeedsRetrieval(js, ss) == js = <<>> /\ ss = <<>>

\* the handler up to its first await, or up to the crew when it needs no
\* retrieval
Analyze(req) ==
    /\ analyze_pc = "idle"
    /\ analyze_request = PyNone
    /\ analyze_request' = req
    /\ jobs' = req.jobs
    /\ skills' = req.skills
    /\ ethics_guidelines' = req.ethics_guidelines
    /\ analyze_pc' = IF NeedsRetrieval(req.jobs, req.skills) THEN "jobs_search" ELSE "crew"
    /\ UNCHANGED << guardrails, support, crew_log, jobs_results, skills_results,
                    ethics_results, analyze_response, haystack_log >>

\* jobs_results = await search_haystack(jobs_query, top_k=3)
SearchJobs(reply) ==
    /\ analyze_pc = "jobs_search"
    /\ haystack_log' = Append(haystack_log,
           [query |-> analyze_request.query
                        \o " job opportunities career positions roles",
            top_k |-> 3])
    /\ jobs_results' = SearchHaystack(reply)
    /\ analyze_pc' = "skills_search"
    /\ UNCHANGED << guardrails, support, crew_log, analyze_request, jobs, skills,
                    ethics_guidelines, skills_results, ethics_results,
                    analyze_response >>

\* skills_results = await search_haystack(skills_query, top_k=3)
SearchSkills(reply) ==
    /\ analyze_pc = "skills_search"
    /\ haystack_log' = Append(haystack_log,
           [query |-> analyze_request.query
                        \o " skills training courses learning paths",
            top_k |-> 3])
    /\ skills_results' = SearchHaystack(reply)
    /\ analyze_pc' = "ethics_search"
    /\ UNCHANGED << guardrails, support, crew_log, analyze_request, jobs, skills,
                    ethics_guidelines, jobs_results, ethics_results,
                    analyze_response >>

\* except Exception as e: raise HTTPException(500, f"Analysis failed: {str(e)}")
AnalyzeExcept(msg) == HTTPException(500, PyStr("Analysis failed: " \o msg))

\* ethics_results = await search_haystack(ethics_query, top_k=2), the three
\* document lists put together and sorted into jobs, skills and ethics
SearchEthics(reply) ==
    /\ analyze_pc = "ethics_search"
    /\ haystack_log' = Append(haystack_log,
           [query |-> "career guidance ethics fairness bias prevention",
            top_k |-> 2])
    /\ ethics_results' = SearchHaystack(reply)
    /\ IF \E results \in {jobs_results, skills_results, ethics_results'} :
              results.t # "dict"
       THEN /\ analyze_response' =
                   AnalyzeExcept("'list' object has no attribute 'get'")
            /\ analyze_pc' = "done"
            /\ UNCHANGED << jobs, skills, ethics_guidelines >>
       ELSE LET all_documents == DocumentsOf(jobs_results)
                                    \o DocumentsOf(skills_results)
                                    \o DocumentsOf(ethics_results')
            IN  /\ jobs' = jobs \o Parsed(all_documents, "jobs")
                /\ skills' = skills \o Parsed(all_documents, "skills")
                /\ ethics_guidelines' =
                       ethics_guidelines \o Parsed(all_documents, "ethics")
                /\ analyze_pc' = "crew"
                /\ UNCHANGED analyze_response
    /\ UNCHANGED << guardrails, support, crew_log, analyze_request, jobs_results,
                    skills_results >>

\* result = run_student_support_crew(enriched_prompt) and the answer
AnalyzeCrew(outcome) ==
    /\ analyze_pc = "crew"
    /\ crew_log' = Append(crew_log,
           EnrichedPrompt(analyze_request.query, jobs, skills, ethics_guidelines))
    /\ analyze_response' =
           IF outcome.ok
           THEN Returned(PyDict(
                    [status |-> "success",
                     top_jobs |-> Prefix(jobs, 3),
                     sources_used |->
                         [jobs_count |-> Len(jobs),
                          skills_count |-> Len(skills),
                          ethics_guidelines_count |-> Len(ethics_guidelines)]]))
           ELSE AnalyzeExcept(outcome.value)
    /\ analyze_pc' = "done"
    /\ UNCHANGED << guardrails, support, analyze_request, jobs, skills,
                    ethics_guidelines, jobs_results, skills_results,
                    ethics_results, haystack_log >>

NextAnalyze ==
    \/ \E req \in AnalyzeRequests : Analyze(req)
    \/ \E reply \in HaystackReplies : SearchJobs(reply)
    \/ \E reply \in HaystackReplies : SearchSkills(reply)
    \/ \E reply \in HaystackReplies : SearchEthics(reply)
    \/ \E outcome \in CrewOutcomes : AnalyzeCrew(outcome)

SpecAnalyze == Init /\ [][NextAnalyze]_vars

\* the request supplies neither jobs nor skills
NothingSupplied == analyze_request.jobs = <<>> /\ analyze_request.skills = <<>>

\* the three searches of a request for the query q: jobs, skills, ethics
ThreeSearches(q) ==
    << [query |-> q \o " job opportunities career positions roles", top_k |-> 3],
       [query |-> q \o " skills training courses learning paths", top_k |-> 3],
       [query |-> "career guidance ethics fairness bias prevention", top_k |-> 2] >>

\* the search that gave results failed
Failed(results) == results.t = "dict" /\ "error" \in DOMAIN results.v

\* the crew is about to be run or has been run
AtCrew == analyze_pc = "crew" \/ crew_log # <<>>

\* C20: /analyze asks the retrieval service exactly when the request
\* supplies neither jobs nor skills: then the searches are sent in the order
\* jobs, skills, ethics and all three are out before the crew is run; a
\* search that failed gives an empty list of documents and the request goes
\* on to the crew; a request that supplies a job or a skill sends no search
\* and the crew's prompt is built from the lists exactly as supplied.
C20_AnalyzeRetrieval ==
    analyze_request # PyNone =>
        LET req == analyze_request
            sent == haystack_log
            all == ThreeSearches(req.query)
        IN  /\ Len(sent) <= 3 /\ sent = SubSeq(all, 1, Len(sent))
            /\ sent # <<>> => NothingSupplied
            /\ AtCrew \/ analyze_pc = "done" =>
                  IF NothingSupplied THEN sent = all ELSE sent = <<>>
            /\ \A results \in {jobs_results, skills_results, ethics_results} :
                  Failed(results) => results.v.documents = PyList(<<>>)
            /\ analyze_pc = "done" /\ crew_log = <<>> =>
                  \E results \in {jobs_results, skills_results, ethics_results} :
                      results.t = "list"
            /\ AtCrew /\ Failed(jobs_results) /\ Failed(skills_results)
                   /\ Failed(ethics_results) =>
                  /\ jobs = <<>> /\ skills = <<>>
                  /\ ethics_guidelines = req.ethics_guidelines
            /\ ~NothingSupplied =>
                  /\ jobs = req.jobs /\ skills = req.skills
                  /\ ethics_guidelines = req.ethics_guidelines
                  /\ crew_log # <<>> =>
                        crew_log = << EnrichedPrompt(req.query, req.jobs, req.skills,
                                                     req.ethics_guidelines) >>

\* nothing supplied; the jobs search and the ethics search failed, the
\* skills search gave a job and a skill; the three searches went out in
\* order, the crew was run and the answer counts one job and one skill
C20_Witness ==
    /\ analyze_pc = "done"
    /\ analyze_request # PyNone
    /\ NothingSupplied
    /\ Failed(jobs_results)
    /\ skills_results = PyDict([documents |-> PyList(<< DJob, DSkill >>)])
    /\ Failed(ethics_results)
    /\ haystack_log = ThreeSearches("data science")
    /\ Len(crew_log) = 1
    /\ jobs = << DJob.metadata >>
    /\ skills = << DSkill.metadata >>
    /\ analyze_response.kind = "return"

====
